---------------------------- MODULE Spec2Model ----------------------------
(***************************************************************************)
(* Model of src/app.py: one run of the Streamlit script main(), from the   *)
(* credential lookup to the display of the suggestion.                     *)
(*                                                                         *)
(* Python strings are sequences of symbols.  Error messages are spelled    *)
(* letter by letter; the Japanese template text of the prompt is spelled   *)
(* with one ASCII symbol per fragment (the original text is quoted in the  *)
(* comments), except the placeholder, which keeps its three characters.    *)
(***************************************************************************)
EXTENDS Naturals, Sequences, FiniteSets

VARIABLES
    pc,                \* position of the run in main()
    api_key,           \* main: api_key
    models,            \* initialize_gemini: models
    supported_models,  \* initialize_gemini: supported_models
    selected_model,    \* initialize_gemini: selected_model
    model,             \* main: model
    ingredients,       \* main: ingredients
    cuisine_type,      \* main: cuisine_type
    prompt,            \* generate_dinner_suggestion: prompt
    genResult,         \* what model.generate_content / response.text did
    suggestion,        \* main: suggestion
    outcome,           \* how the run ended
    ui,                \* the messages rendered so far
    calls,             \* the external calls made so far, in order
    raised             \* the call sites that raised an exception

vars == <<pc, api_key, models, supported_models, selected_model, model,
          ingredients, cuisine_type, prompt, genResult, suggestion,
          outcome, ui, calls, raised>>

\* Longest catalog genai.list_models() answers with.
MaxCatalog == 3

None == "None"

(***************************************************************************)
(* Strings                                                                 *)
(***************************************************************************)

\* sub occurs in s at position i
IsAt(sub, s, i) ==
    /\ i + Len(sub) <= Len(s) + 1
    /\ \A j \in 1..Len(sub) : s[i + j - 1] = sub[j]

\* Python: sub in s
Contains(sub, s) == \E i \in 1..(Len(s) + 1) : IsAt(sub, s, i)

\* Python: s.count(sub), for a sub that does not overlap itself
Count(sub, s) == Cardinality({i \in 1..Len(s) : Len(sub) > 0 /\ IsAt(sub, s, i)})

UpperCase == <<"A", "B", "C", "D", "E", "F", "G", "H", "I", "J", "K", "L", "M",
               "N", "O", "P", "Q", "R", "S", "T", "U", "V", "W", "X", "Y", "Z">>
LowerCase == <<"a", "b", "c", "d", "e", "f", "g", "h", "i", "j", "k", "l", "m",
               "n", "o", "p", "q", "r", "s", "t", "u", "v", "w", "x", "y", "z">>

LowerChar(c) ==
    IF \E i \in 1..Len(UpperCase) : UpperCase[i] = c
    THEN LowerCase[CHOOSE i \in 1..Len(UpperCase) : UpperCase[i] = c]
    ELSE c

\* Python: s.lower()
Lower(s) == [i \in 1..Len(s) |-> LowerChar(s[i])]

\* Python: the truth value of a str
Truthy(s) == Len(s) > 0

RECURSIVE Concat(_)
\* the concatenation of a sequence of strings
Concat(ss) == IF ss = <<>> THEN <<>> ELSE Head(ss) \o Concat(Tail(ss))

Range(s) == {s[i] : i \in 1..Len(s)}

(***************************************************************************)
(* get_api_key and the credential check of main                            *)
(***************************************************************************)

\* What reading st.secrets does: it raises (no secrets file), the key is not
\* in it, or it holds a value: an empty string, a key, or a TOML number.
SecretsResults ==
    { [kind |-> "raises"], [kind |-> "absent"] }
      \cup { [kind |-> "value", value |-> v] : v \in {"", "AIza-secret", "int:12345"} }

\* What the sidebar text_input holds.
SidebarInputs == {"", "AIza-typed"}

\* Python: the truth value of api_key (a str, a non-zero int, or None)
KeyTruthy(k) == k # None /\ k # ""

\* api_key[:10] and len(api_key) raise TypeError on a value that is no str
KeySliceable(k) == k \notin {None, "int:12345"}

\* Caught, with the model constructed outside the try block
CaughtButConstruct(site) == site # "GenerativeModel"

\* The external call sites and whether a try/except Exception encloses them.
Caught(site) ==
    CASE site = "st.secrets"       -> TRUE   \* try at line 10, except at 14
      [] site = "api_key[:10]"     -> TRUE   \* try at line 34, except at 89
      [] site = "list_models"      -> TRUE   \* try at line 34, except at 89
      [] site = "GenerativeModel"  -> TRUE   \* try at line 34, except at 89
      [] site = "generate_content" -> TRUE   \* try at line 119, except at 122
      [] site = "response.text"    -> TRUE   \* try at line 119, except at 122

\* The run dies of an exception no handler caught.
Crash ==
    /\ pc' = "crashed"
    /\ outcome' = "UnhandledFault"

\* get_api_key's return value, given what st.secrets did and the sidebar input
ApiKeyOf(sec, typed) ==
    IF sec.kind = "value" THEN sec.value
    ELSE IF typed # "" THEN typed ELSE None

\* get_api_key's sidebar messages
ApiKeyUi(sec, typed) ==
    IF sec.kind = "value" THEN {}
    ELSE {"sidebar:secret not found"}
           \cup (IF typed # "" THEN {"sidebar:key set"} ELSE {"sidebar:key required"})

\* KeyMissing, with the check of line 145 left out
KeyMissingNever(k) == FALSE

\* main, line 145: if not api_key
KeyMissing(k) == ~KeyTruthy(k)

GetApiKey ==
    /\ pc = "start"
    /\ \E sec \in SecretsResults, typed \in SidebarInputs :
         /\ calls' = Append(calls, "st.secrets")
         /\ raised' = IF sec.kind = "raises" THEN raised \cup {"st.secrets"} ELSE raised
         /\ IF sec.kind = "raises" /\ ~Caught("st.secrets")
            THEN /\ Crash
                 /\ UNCHANGED <<api_key, ui>>
            ELSE /\ api_key' = ApiKeyOf(sec, typed)
                 /\ IF KeyMissing(api_key')
                    THEN /\ ui' = ui \cup ApiKeyUi(sec, typed) \cup {"warning:set the API key"}
                         /\ outcome' = "CredentialMissing"
                         /\ pc' = "done"
                    ELSE /\ ui' = ui \cup ApiKeyUi(sec, typed)
                         /\ outcome' = outcome
                         /\ pc' = "init"
    /\ UNCHANGED <<models, supported_models, selected_model, model, ingredients,
                   cuisine_type, prompt, genResult, suggestion>>

(***************************************************************************)
(* initialize_gemini                                                       *)
(***************************************************************************)

priority_models == <<"gemini-3-flash-preview", "gemini-2.5-flash",
                     "gemini-2.0-flash", "gemini-pro-latest">>

\* model.name is a resource path; its segments
ModelNames ==
    { <<"models", priority_models[i]>> : i \in 1..Len(priority_models) }
      \cup { <<"models", "legacy-model">>, <<"tunedModels", "my-tuned">> }

\* A model descriptor: hasMethods is hasattr(model, 'supported_generation_methods')
Descriptors ==
    { [name |-> n, hasMethods |-> TRUE, methods |-> m] :
        n \in ModelNames, m \in { {"embedContent"}, {"generateContent", "countTokens"} } }
      \cup { [name |-> <<"models", "gemini-2.0-flash">>, hasMethods |-> FALSE, methods |-> {}] }

Catalogs == UNION { [1..n -> Descriptors] : n \in 0..MaxCatalog }

\* model.name.split('/')[-1]
ModelName(d) == d.name[Len(d.name)]

\* line 54: the model supports generateContent
IsSupported(d) == d.hasMethods /\ "generateContent" \in d.methods

\* SupportedModels, without the filter of line 54
SupportedModelsUnfiltered(ms) == [i \in 1..Len(ms) |-> ModelName(ms[i])]

RECURSIVE SupportedModels(_)
\* lines 52-57: the names of the supporting models, in catalog order
SupportedModels(ms) ==
    IF ms = <<>> THEN <<>>
    ELSE (IF IsSupported(Head(ms)) THEN <<ModelName(Head(ms))>> ELSE <<>>)
           \o SupportedModels(Tail(ms))

RECURSIVE PriorityScanCatalogOrder(_, _)
\* PriorityScan, with the loops exchanged: the first supported model that is
\* in the priorities
PriorityScanCatalogOrder(priorities, supported) ==
    IF supported = <<>> THEN None
    ELSE IF Head(supported) \in Range(priorities) THEN Head(supported)
    ELSE PriorityScanCatalogOrder(priorities, Tail(supported))

RECURSIVE PriorityScan(_, _)
\* lines 73-78: the first entry of the priorities that is in supported, or None
PriorityScan(priorities, supported) ==
    IF priorities = <<>> THEN None
    ELSE IF Head(priorities) \in Range(supported) THEN Head(priorities)
    ELSE PriorityScan(Tail(priorities), supported)

\* Fallback, taking the last supported model
FallbackLast(supported) == supported[Len(supported)]

\* lines 80-82: the model to use when the scan found none
Fallback(supported) == supported[1]

\* SelectModel, falling back to the head of the priorities
SelectModelDefault(supported) ==
    IF PriorityScan(priority_models, supported) # None
    THEN PriorityScan(priority_models, supported)
    ELSE priority_models[1]

\* lines 71-85: selected_model
SelectModel(supported) ==
    IF PriorityScan(priority_models, supported) # None
    THEN PriorityScan(priority_models, supported)
    ELSE Fallback(supported)

\* The failure of initialize_gemini: lines 89-92, then main, lines 152-154
InitFailed ==
    /\ ui' = ui \cup {"error:initialization failed", "error:model not initialized"}
    /\ outcome' = "CatalogFetchFailed"
    /\ model' = None
    /\ pc' = "done"

\* lines 34-42: configure and list the models
ListModels ==
    /\ pc = "init"
    /\ IF ~KeySliceable(api_key)
       THEN /\ raised' = raised \cup {"api_key[:10]"}
            /\ IF Caught("api_key[:10]") THEN InitFailed
               ELSE Crash /\ UNCHANGED <<ui, model>>
            /\ UNCHANGED <<models, calls>>
       ELSE /\ calls' = Append(calls, "list_models")
            /\ \/ \E catalog \in Catalogs :
                    /\ models' = catalog
                    /\ pc' = "select"
                    /\ ui' = ui \cup {"sidebar:key shown"}
                    /\ UNCHANGED <<outcome, model, raised>>
               \/ /\ raised' = raised \cup {"list_models"}
                  /\ IF Caught("list_models") THEN InitFailed
                     ELSE Crash /\ UNCHANGED <<ui, model>>
                  /\ UNCHANGED models
    /\ UNCHANGED <<api_key, supported_models, selected_model, ingredients,
                   cuisine_type, prompt, genResult, suggestion>>

\* lines 44-85: filter the catalog and select
Select ==
    /\ pc = "select"
    /\ supported_models' = SupportedModels(models)
    /\ IF supported_models' = <<>>
       THEN /\ ui' = ui \cup {"sidebar:model list", "error:no model supports generateContent",
                              "error:model not initialized"}
            /\ outcome' = "NoCapableModel"
            /\ pc' = "done"
            /\ UNCHANGED selected_model
       ELSE /\ selected_model' = SelectModel(supported_models')
            /\ ui' = ui \cup {"sidebar:model list"}
                        \cup (IF PriorityScan(priority_models, supported_models') = None
                              THEN {"warning:no priority model"}
                              ELSE {"success:model selected"})
            /\ pc' = "construct"
            /\ UNCHANGED outcome
    /\ UNCHANGED <<api_key, models, model, ingredients, cuisine_type, prompt,
                   genResult, suggestion, calls, raised>>

\* lines 86-87: construct the model; the locals of initialize_gemini end with
\* its return
Construct ==
    /\ pc = "construct"
    /\ calls' = Append(calls, "GenerativeModel")
    /\ \/ /\ model' = selected_model
          /\ pc' = "form"
          /\ models' = <<>>
          /\ supported_models' = <<>>
          /\ selected_model' = None
          /\ UNCHANGED <<outcome, ui, raised>>
       \/ /\ raised' = raised \cup {"GenerativeModel"}
          /\ IF Caught("GenerativeModel") THEN InitFailed
             ELSE Crash /\ UNCHANGED <<ui, model>>
          /\ UNCHANGED <<models, supported_models, selected_model>>
    /\ UNCHANGED <<api_key, ingredients, cuisine_type, prompt, genResult, suggestion>>

(***************************************************************************)
(* The form and generate_dinner_suggestion                                 *)
(***************************************************************************)

\* "未指定", the placeholder of an ingredient left out
Placeholder == <<"mi", "shi", "tei">>

\* What a text field can hold: nothing, a blank, a word, the placeholder's
\* own text
FieldValues == { <<>>, <<" ">>, <<"chicken">>, Placeholder }

Forms == [1..3 -> FieldValues]

\* line 172: 和食, 洋食, 中華, イタリアン, メキシカン, 韓国料理, インド料理, その他
Cuisines == { <<"washoku">>, <<"yoshoku">>, <<"chuka">>, <<"italian">>,
              <<"mexican">>, <<"kankoku-ryori">>, <<"indo-ryori">>, <<"sonota">> }

\* Slot, without the placeholder
SlotVerbatim(v) == v

\* lines 100-102: {ingredients[i] if ingredients[i] else "未指定"}
Slot(v) == IF Truthy(v) THEN v ELSE Placeholder

\* lines 96-117: the prompt
PromptOf(ing, cuisine) ==
    Concat(<<
        <<"\n", "[propose a tasty dinner dish from the following]", "\n", "\n">>,
        <<"[ingredients]", "\n">>,
        <<"- ingredient 1: ">>, Slot(ing[1]), <<"\n">>,
        <<"- ingredient 2: ">>, Slot(ing[2]), <<"\n">>,
        <<"- ingredient 3: ">>, Slot(ing[3]), <<"\n", "\n">>,
        <<"[cuisine]", "\n">>, cuisine, <<"\n", "\n">>,
        <<"[format]", "\n", "[propose in this format:]", "\n", "\n">>,
        <<"1. dish name", "\n", "2. ingredients as a list", "\n">>,
        <<"3. numbered steps", "\n", "4. one tip of the AI", "\n", "\n">>,
        <<"[use the ingredients well and propose a dish with the character of ]">>,
        cuisine, <<"[.]", "\n">>,
        \* 未指定の食材は、料理に合うものを自由に追加してください。
        Placeholder, <<"[ ingredients: add freely what suits the dish]", "\n">>
    >>)

\* AnyIngredient, testing the list instead of its elements
AnyIngredientOfList(ing) == Len(ing) > 0

\* line 181: any(ingredients)
AnyIngredient(ing) == \E i \in 1..3 : Truthy(ing[i])

\* lines 156-183: the form is rendered; the button was pressed or not
Submit ==
    /\ pc = "form"
    /\ \E ing \in Forms, cuisine \in Cuisines, pressed \in BOOLEAN :
         /\ ingredients' = ing
         /\ cuisine_type' = cuisine
         /\ IF ~pressed
            THEN /\ ui' = ui \cup {"form", "help"}
                 /\ outcome' = "Idle"
                 /\ pc' = "done"
            ELSE IF ~AnyIngredient(ing)
            THEN /\ ui' = ui \cup {"form", "warning:enter an ingredient"}
                 /\ outcome' = "NoIngredients"
                 /\ pc' = "done"
            ELSE /\ ui' = ui \cup {"form"}
                 /\ outcome' = outcome
                 /\ pc' = "format"
    /\ UNCHANGED <<api_key, models, supported_models, selected_model, model,
                   prompt, genResult, suggestion, calls, raised>>

\* lines 96-117
FormatPrompt ==
    /\ pc = "format"
    /\ prompt' = PromptOf(ingredients, cuisine_type)
    /\ pc' = "generating"
    /\ UNCHANGED <<api_key, models, supported_models, selected_model, model,
                   ingredients, cuisine_type, genResult, suggestion, outcome,
                   ui, calls, raised>>

\* str(e) of the exceptions of the generation client
Messages ==
    { <<"T", "I", "M", "E", "O", "U", "T">>,
      <<"r", "e", "a", "d", " ", "t", "i", "m", "e", "o", "u", "t">>,
      <<"D", "e", "a", "d", "l", "i", "n", "e">>,
      <<"T", "i", "m", "e", "d", " ", "o", "u", "t">>,
      <<"d", "e", "a", "d", " ", "l", "i", "n", "e">>,
      <<"q", "u", "o", "t", "a">>,
      <<>> }

\* What model.generate_content(prompt) and response.text do
GenResults ==
    { [kind |-> "text", text |-> t] : t \in { <<"recipe">>, <<>> } }
      \cup { [kind |-> "raise", site |-> "generate_content", msg |-> m] : m \in Messages }
      \cup { [kind |-> "raise", site |-> "response.text", msg |-> <<"b", "l", "o", "c", "k", "e", "d">>] }

NoResult == [kind |-> "none"]

\* Python None, for a variable that holds a str otherwise
NoText == [none |-> TRUE]
SomeText(t) == [none |-> FALSE, text |-> t]

\* IsTimeout, without lower()
IsTimeoutCaseSensitive(msg) ==
    \/ Contains(<<"t", "i", "m", "e", "o", "u", "t">>, msg)
    \/ Contains(<<"d", "e", "a", "d", "l", "i", "n", "e">>, msg)

\* line 127
IsTimeout(msg) ==
    \/ Contains(<<"t", "i", "m", "e", "o", "u", "t">>, Lower(msg))
    \/ Contains(<<"d", "e", "a", "d", "l", "i", "n", "e">>, Lower(msg))

\* line 188: if suggestion
SuggestionTruthy(s) == ~s.none /\ Truthy(s.text)

\* lines 119-130, then main, lines 186-202
Generate ==
    /\ pc = "generating"
    /\ calls' = Append(calls, "generate_content")
    /\ \E r \in GenResults :
         /\ genResult' = r
         /\ raised' = IF r.kind = "raise" THEN raised \cup {r.site} ELSE raised
         /\ IF r.kind = "raise" /\ ~Caught(r.site)
            THEN /\ Crash
                 /\ UNCHANGED <<suggestion, ui>>
            ELSE /\ suggestion' = IF r.kind = "text" THEN SomeText(r.text) ELSE NoText
                 /\ pc' = "done"
                 /\ IF r.kind = "raise"
                    THEN IF IsTimeout(r.msg)
                         THEN /\ ui' = ui \cup {"error:generation failed", "warning:timed out, retry later", "help"}
                              /\ outcome' = "GenerationTimedOut"
                         ELSE /\ ui' = ui \cup {"error:generation failed", "help"}
                              /\ outcome' = "GenerationFailed"
                    ELSE IF SuggestionTruthy(suggestion')
                         THEN /\ ui' = ui \cup {"success:suggestion ready", "suggestion", "help"}
                              /\ outcome' = "Generated"
                         ELSE /\ ui' = ui \cup {"help"}
                              /\ outcome' = "NothingShown"
    /\ UNCHANGED <<api_key, models, supported_models, selected_model, model,
                   ingredients, cuisine_type, prompt>>

(***************************************************************************)
(* The run of main                                                         *)
(***************************************************************************)

Init ==
    /\ pc = "start"
    /\ api_key = None
    /\ models = <<>>
    /\ supported_models = <<>>
    /\ selected_model = None
    /\ model = None
    /\ ingredients = [i \in 1..3 |-> <<>>]
    /\ cuisine_type = <<"washoku">>
    /\ prompt = <<>>
    /\ genResult = NoResult
    /\ suggestion = NoText
    /\ outcome = "Running"
    /\ ui = {}
    /\ calls = <<>>
    /\ raised = {}

Next ==
    \/ GetApiKey
    \/ ListModels
    \/ Select
    \/ Construct
    \/ Submit
    \/ FormatPrompt
    \/ Generate

Spec == Init /\ [][Next]_vars

(***************************************************************************)
(* generate_dinner_suggestion called with any ingredients and cuisine      *)
(***************************************************************************)

InitCall ==
    /\ pc = "format"
    /\ api_key = "AIza-secret"
    /\ models = <<>>
    /\ supported_models = <<>>
    /\ selected_model = None
    /\ model = "gemini-2.5-flash"
    /\ ingredients \in Forms
    /\ cuisine_type \in Cuisines
    /\ prompt = <<>>
    /\ genResult = NoResult
    /\ suggestion = NoText
    /\ outcome = "Running"
    /\ ui = {}
    /\ calls = <<>>
    /\ raised = {}

NextCall ==
    \/ FormatPrompt
    \/ Generate

SpecCall == InitCall /\ [][NextCall]_vars

(***************************************************************************)
(* Properties of the model selection                                       *)
(***************************************************************************)

\* The selection has run and the frame of initialize_gemini is still there.
SelectionDone == "sidebar:model list" \in ui /\ model = None

\* The identifiers of the catalog's models that support generateContent
CapableIds == { ModelName(models[i]) : i \in { j \in 1..Len(models) : IsSupported(models[j]) } }

\* The positions of the priority list that name a capable model
MatchingPriorities == { i \in 1..Len(priority_models) : priority_models[i] \in CapableIds }

\* The positions of the catalog that hold a capable model
CapablePositions == { i \in 1..Len(models) : IsSupported(models[i]) }

Min(S) == CHOOSE x \in S : \A y \in S : x <= y

\* C1: when some capable model of the catalog is named in the priority list,
\* the selected model is the earliest priority entry naming a capable model,
\* whatever the order of the catalog.
C1_EarliestPriorityWins ==
    (SelectionDone /\ MatchingPriorities # {})
        => selected_model = priority_models[Min(MatchingPriorities)]

C1_Witness ==
    /\ pc = "construct"
    /\ Len(models) = 2
    /\ ModelName(models[1]) = "gemini-pro-latest" /\ IsSupported(models[1])
    /\ ModelName(models[2]) = "gemini-2.5-flash" /\ IsSupported(models[2])
    /\ selected_model = "gemini-2.5-flash"

\* C2: when some model is capable and no capable model is named in the
\* priority list, the selected model is the first capable model in catalog
\* order.
C2_FallbackFirstCapable ==
    (SelectionDone /\ CapablePositions # {} /\ MatchingPriorities = {})
        => selected_model = ModelName(models[Min(CapablePositions)])

C2_Witness ==
    /\ pc = "construct"
    /\ Len(models) = 3
    /\ ~IsSupported(models[1])
    /\ IsSupported(models[2]) /\ IsSupported(models[3])
    /\ ModelName(models[2]) # ModelName(models[3])
    /\ MatchingPriorities = {}
    /\ selected_model = ModelName(models[2])

\* C3: a catalog without a capable model ends the run in NoCapableModel and
\* yields no model, also when a model without generateContent is named in the
\* priority list.
C3_NoCapableModel ==
    (SelectionDone /\ CapablePositions = {})
        => /\ outcome = "NoCapableModel"
           /\ pc = "done"
           /\ selected_model = None
           /\ model = None
           /\ calls = <<"st.secrets", "list_models">>

C3_Witness ==
    /\ outcome = "NoCapableModel"
    /\ Len(models) = 2
    /\ ModelName(models[1]) = "gemini-2.5-flash"
    /\ models[2].methods = {"embedContent"}

\* C4: a selected identifier is the identifier of a capable model of the
\* catalog, and so is the model handed to the constructor.
C4_SelectedIsCapable ==
    /\ selected_model # None => selected_model \in CapableIds
    /\ (SelectionDone /\ outcome # "NoCapableModel") => selected_model \in CapableIds

C4_Witness ==
    /\ pc = "construct"
    /\ \E i \in 1..Len(models) :
         /\ ~IsSupported(models[i])
         /\ ModelName(models[i]) = priority_models[1]
    /\ selected_model = "gemini-pro-latest"

(***************************************************************************)
(* Properties of the prompt                                                *)
(***************************************************************************)

\* The prompt has been formatted.
PromptBuilt == pc = "generating" \/ "generate_content" \in Range(calls)

\* A field left out: empty, or nothing but blanks
IsBlank(v) == \A i \in 1..Len(v) : v[i] = " "

RECURSIVE Sum(_)
Sum(ns) == IF ns = <<>> THEN 0 ELSE Head(ns) + Sum(Tail(ns))

C6_GenerationOnlyAfterSelection ==
    /\ "generate_content" \in Range(calls) =>
         /\ calls = <<"st.secrets", "list_models", "GenerativeModel", "generate_content">>
         /\ KeyTruthy(api_key)
         /\ "sidebar:model list" \in ui
         /\ model \in Range(priority_models) \cup {"legacy-model", "my-tuned"}
         /\ {"list_models", "GenerativeModel"} \cap raised = {}
    /\ "list_models" \in Range(calls) => KeyTruthy(api_key)
    /\ outcome = "CredentialMissing" => calls = <<"st.secrets">> /\ pc = "done"
    /\ outcome \in {"CredentialMissing", "CatalogFetchFailed", "NoCapableModel"} =>
         /\ "generate_content" \notin Range(calls)
         /\ pc = "done"
         /\ prompt = <<>>

C6_Witness ==
    /\ outcome = "Generated"
    /\ calls = <<"st.secrets", "list_models", "GenerativeModel", "generate_content">>
    /\ model = "my-tuned"

\* The last external call made
LastCall == calls[Len(calls)]

\* C7: an exception of an external call is caught where the call is made: no
\* run dies of it; a failed secrets lookup leads to the sidebar prompt, a
\* failed catalog listing or model construction ends the run in
\* CatalogFetchFailed and a failed generation in GenerationFailed or
\* GenerationTimedOut, and no later call is made.
C7_FailuresAreCaught ==
    /\ pc # "crashed"
    /\ outcome # "UnhandledFault"
    /\ "st.secrets" \in raised =>
         /\ "sidebar:secret not found" \in ui
         /\ api_key \in {None, "AIza-typed"}
    /\ raised \cap {"api_key[:10]", "list_models", "GenerativeModel"} # {} =>
         /\ pc = "done"
         /\ outcome = "CatalogFetchFailed"
         /\ model = None
         /\ "error:initialization failed" \in ui
         /\ "form" \notin ui
         /\ "generate_content" \notin Range(calls)
    /\ "api_key[:10]" \in raised => LastCall = "st.secrets"
    /\ "list_models" \in raised => LastCall = "list_models"
    /\ "GenerativeModel" \in raised => LastCall = "GenerativeModel"
    /\ raised \cap {"generate_content", "response.text"} # {} =>
         /\ pc = "done"
         /\ outcome \in {"GenerationFailed", "GenerationTimedOut"}
         /\ suggestion = NoText
         /\ "error:generation failed" \in ui
         /\ "suggestion" \notin ui
         /\ LastCall = "generate_content"

C7_Witness ==
    /\ raised = {"st.secrets", "GenerativeModel"}
    /\ outcome = "CatalogFetchFailed"
    /\ selected_model = "legacy-model"

\* The message holds the word, whatever the case of its letters
HoldsWord(word, msg) ==
    \E i \in 1..Len(msg) :
        /\ i + Len(word) - 1 <= Len(msg)
        /\ \A j \in 1..Len(word) : msg[i + j - 1] \in {word[j], UpperCase[CHOOSE k \in 1..26 : LowerCase[k] = word[j]]}

\* C8: a failed generation ends in GenerationTimedOut exactly when the
\* message holds "timeout" or "deadline" in any case, and in GenerationFailed
\* otherwise; the retry-later message is shown exactly in the first case.
C8_TimeoutByMessage ==
    genResult.kind = "raise" =>
        /\ outcome \in {"GenerationFailed", "GenerationTimedOut"}
        /\ outcome = "GenerationTimedOut"
             <=> \/ HoldsWord(<<"t", "i", "m", "e", "o", "u", "t">>, genResult.msg)
                 \/ HoldsWord(<<"d", "e", "a", "d", "l", "i", "n", "e">>, genResult.msg)
        /\ outcome = "GenerationTimedOut" <=> "warning:timed out, retry later" \in ui

C8_Witness ==
    /\ genResult.kind = "raise"
    /\ genResult.msg = <<"D", "e", "a", "d", "l", "i", "n", "e">>
    /\ outcome = "GenerationTimedOut"
    /\ "warning:timed out, retry later" \in ui

\* C9: a run that called the generation ends in Generated, GenerationFailed
\* or GenerationTimedOut, and shows the suggestion or an error message, also
\* when the returned text is empty.
C9_AsStated ==
    (pc = "done" /\ "generate_content" \in Range(calls)) =>
        /\ outcome \in {"Generated", "GenerationFailed", "GenerationTimedOut"}
        /\ outcome = "Generated" => "suggestion" \in ui /\ suggestion = SomeText(genResult.text)
        /\ "suggestion" \in ui \/ "error:generation failed" \in ui

\* C10: a submission with three empty ingredient fields ends with a warning
\* after the model was constructed, and neither formats the prompt nor calls
\* the generation; the prompt is formatted and the generation called only
\* with an ingredient that is not empty.
C10_EmptySubmissionStops ==
    /\ outcome = "NoIngredients" =>
         /\ \A i \in 1..3 : ingredients[i] = <<>>
         /\ pc = "done"
         /\ "warning:enter an ingredient" \in ui
         /\ calls = <<"st.secrets", "list_models", "GenerativeModel">>
         /\ model # None
         /\ prompt = <<>>
    /\ (pc \in {"format", "generating"} \/ prompt # <<>> \/ "generate_content" \in Range(calls)) =>
         \E i \in 1..3 : ingredients[i] # <<>>

C10_Witness ==
    /\ outcome = "NoIngredients"
    /\ cuisine_type = <<"italian">>
    /\ "generate_content" \notin Range(calls)

=============================================================================
